---- MODULE Spec2Model ----
(***************************************************************************)
(* Model of src/src/model_utils.py: the feature catalog, the validator,    *)
(* the cached model loader and the prediction adapter.                     *)
(*                                                                         *)
(* Python values are tagged records [t, n, s]: t is the Python type name,  *)
(* n the numeric value in tenths (int 18 is n = 180, float 0.3 is n = 3),  *)
(* s the text of a str.  Messages are sequences of tokens: an f-string's   *)
(* literal parts and its formatted fields, in order.                       *)
(***************************************************************************)
EXTENDS Integers, Sequences, FiniteSets, TLC

VARIABLES
    vin,          \* validator run: the patient_data passed in
    vout,         \* validator run: what validate_input_data returned
    vpc,          \* validator run: "build" or "done"
    vcur,         \* validator run: fields changed so far, and the last of them
    fileState,    \* liver_disease_staging_model.pkl: "ok", "absent", "corrupt"
    clf,          \* what the pickled classifier answers
    cache,        \* st.cache_resource's entry for load_model
    lock,         \* holder of the cache's compute lock, 0 when free
    built,        \* the model instances joblib.load has finished
    deserCount,   \* executions of joblib.load
    loadCalls,    \* invocations of load_model
    predictCalls, \* invocations of model.predict
    probaCalls,   \* invocations of model.predict_proba
    errorsShown,  \* invocations of st.error by load_model
    calls,        \* invocations of predict_liver_disease
    validCalls,   \* those of them whose record passed validation
    pc,           \* each caller's position in predict_liver_disease
    rec,          \* each caller's patient_data
    model,        \* each caller's local `model`, 0 for None
    out           \* each caller's result: the tuple returned or the exception

vvars == <<vin, vout, vpc, vcur>>

pvars == <<fileState, clf, cache, lock, built, deserCount, loadCalls,
           predictCalls, probaCalls, errorsShown, calls, validCalls, pc, rec,
           model, out>>

vars == <<vvars, pvars>>

(* ------------------------------ bounds -------------------------------- *)

\* How many fields of a submitted record may differ from the reference record.
MaxEdits == 2

\* How many string-hash seeds (set iteration orders) are explored.
NumSeeds == 2

\* How many callers (script-run threads) share the process.
NumCallers == 2

\* How many predict_liver_disease calls are made in all.
MaxCalls == 3

(* --------------------------- Python values ---------------------------- *)

IntV(k) == [t |-> "int", n |-> 10 * k, s |-> ""]

FloatV(tenths) == [t |-> "float", n |-> tenths, s |-> ""]

StrV(text) == [t |-> "str", n |-> 0, s |-> text]

\* A two-element numpy array: its comparisons are elementwise, and the truth
\* value of the result raises ValueError.
NdArray == [t |-> "ndarray", n |-> 0, s |-> ""]

\* isinstance(value, (int, float))
IsNumber(value) == value.t \in {"int", "float"}

\* a == b for the value shapes above, when neither is an array
PyEq(a, b) ==
    IF IsNumber(a) /\ IsNumber(b) THEN a.n = b.n
    ELSE IF a.t = "str" /\ b.t = "str" THEN a.s = b.s
    ELSE FALSE

\* str(value) of a number, as an f-string field formats it
PyStr(value) ==
    LET m == IF value.n < 0 THEN -value.n ELSE value.n
        sign == IF value.n < 0 THEN "-" ELSE ""
    IN IF value.t = "int" THEN sign \o ToString(m \div 10)
       ELSE IF value.t = "float"
            THEN sign \o ToString(m \div 10) \o "." \o ToString(m % 10)
       ELSE value.s

Range(q) == {q[i] : i \in 1..Len(q)}

(* ------------------- outcomes of a function body ---------------------- *)

\* return (ok, msg)
Return(ok, msg) == [raised |-> FALSE, exc |-> "", ok |-> ok, msg |-> msg]

\* an exception of type exc with text str(e) leaves the body
Raise(exc, text) == [raised |-> TRUE, exc |-> exc, ok |-> FALSE, msg |-> <<text>>]

\* the body has not returned: control goes on to the next statement
NoReturn == [raised |-> FALSE, exc |-> "continue", ok |-> TRUE, msg |-> <<>>]

(* --------------------------- feature catalog -------------------------- *)

\* get_feature_ranges(): the dict in insertion order
get_feature_ranges ==
    << [field |-> "Age",        min_val |-> IntV(18),  max_val |-> IntV(90)],
       [field |-> "Albumin",    min_val |-> FloatV(20),  max_val |-> FloatV(60)],
       [field |-> "Bilirubin",  min_val |-> FloatV(3),   max_val |-> FloatV(100)],
       [field |-> "ALT",        min_val |-> IntV(7),   max_val |-> IntV(2000)],
       [field |-> "AST",        min_val |-> IntV(10),  max_val |-> IntV(2000)],
       [field |-> "ALP",        min_val |-> IntV(44),  max_val |-> IntV(500)],
       [field |-> "INR",        min_val |-> FloatV(5),   max_val |-> FloatV(50)],
       [field |-> "Platelets",  min_val |-> IntV(20),  max_val |-> IntV(500)],
       [field |-> "Sodium",     min_val |-> IntV(125), max_val |-> IntV(145)],
       [field |-> "Creatinine", min_val |-> FloatV(5),   max_val |-> FloatV(40)] >>

\* the set literal of validate_input_data
required_fields ==
    {"Age", "Sex", "Albumin", "Bilirubin", "ALT", "AST", "ALP", "INR",
     "Platelets", "Sodium", "Creatinine", "Ascites", "Hepatomegaly",
     "Spiders", "Edema"}

boolean_fields == <<"Ascites", "Hepatomegaly", "Spiders", "Edema">>

(* ------------------------------ inputs -------------------------------- *)

\* patient_data is a dict d, or something that is no mapping at all (None)
Dict(d) == [kind |-> "dict", d |-> d]

NoneInput == [kind |-> "NoneType", d |-> <<>>]

\* Iteration order of a set of str under hash seed `seed`: by rank.
FieldOrder ==
    <<"Age", "Sex", "Albumin", "Bilirubin", "ALT", "AST", "ALP", "INR",
      "Platelets", "Sodium", "Creatinine", "Ascites", "Hepatomegaly",
      "Spiders", "Edema">>

\* the place of FieldOrder[i] in the iteration order under `seed`
Rank(i, seed) == (i * seed) % 17

RECURSIVE JoinFrom(_, _, _)
\* ', '.join(S): the elements of S in iteration order, from rank k on
JoinFrom(k, S, seed) ==
    IF k > 16 THEN <<>>
    ELSE LET here == {i \in 1..Len(FieldOrder) :
                         Rank(i, seed) = k /\ FieldOrder[i] \in S}
         IN (IF here = {} THEN <<>> ELSE <<FieldOrder[CHOOSE i \in here : TRUE]>>)
            \o JoinFrom(k + 1, S, seed)

(* ----------------------------- validator ------------------------------ *)

\* the difference taken the wrong way round
missing_fields_reversed(d) == DOMAIN d \ required_fields

\* required_fields - set(patient_data.keys())
missing_fields(d) == required_fields \ DOMAIN d

\* the bounds themselves rejected
out_of_range_exclusive(value, min_val, max_val) ==
    value.n <= min_val.n \/ value.n >= max_val.n

\* value < min_val or value > max_val
out_of_range(value, min_val, max_val) ==
    value.n < min_val.n \/ value.n > max_val.n

\* one iteration of the loop over ranges.items()
check_range(d, r) ==
    IF r.field \in DOMAIN d
    THEN LET value == d[r.field]
         IN IF ~IsNumber(value)
            THEN Return(FALSE, <<r.field, "must be a number">>)
            ELSE IF out_of_range(value, r.min_val, r.max_val)
            THEN Return(FALSE, <<r.field, "must be between", PyStr(r.min_val),
                                 "and", PyStr(r.max_val)>>)
            ELSE NoReturn
    ELSE NoReturn

RECURSIVE check_ranges(_, _)
\* the loop over ranges.items(), from its i-th item on
check_ranges(d, i) ==
    IF i > Len(get_feature_ranges) THEN NoReturn
    ELSE LET r == check_range(d, get_feature_ranges[i])
         IN IF r = NoReturn THEN check_ranges(d, i + 1) ELSE r

\* x not in [a, b], with the faults of the subscript and of the comparison
not_in(d, field, a, b) ==
    IF field \notin DOMAIN d THEN Raise("KeyError", field)
    ELSE IF d[field].t = "ndarray"
    THEN Raise("ValueError", "The truth value of an array is ambiguous")
    ELSE IF PyEq(d[field], a) \/ PyEq(d[field], b) THEN NoReturn
    ELSE Return(FALSE, <<>>)

\* if patient_data['Sex'] not in ['M', 'F']
check_sex(d) ==
    LET r == not_in(d, "Sex", StrV("M"), StrV("F"))
    IN IF r = Return(FALSE, <<>>)
       THEN Return(FALSE, <<"Sex must be either 'M' or 'F'">>)
       ELSE r

RECURSIVE check_booleans(_, _)
\* the loop over boolean_fields, from its i-th item on
check_booleans(d, i) ==
    IF i > Len(boolean_fields) THEN NoReturn
    ELSE LET r == not_in(d, boolean_fields[i], IntV(0), IntV(1))
         IN IF r = NoReturn THEN check_booleans(d, i + 1)
            ELSE IF r = Return(FALSE, <<>>)
            THEN Return(FALSE, <<boolean_fields[i], "must be 0 or 1">>)
            ELSE r

\* the try block of validate_input_data
validate_body(patient_data, seed) ==
    IF patient_data.kind # "dict"
    THEN Raise("AttributeError", "object has no attribute 'keys'")
    ELSE LET d == patient_data.d
             missing == missing_fields(d)
         IN IF missing # {}
            THEN Return(FALSE, <<"Missing required fields:">>
                               \o JoinFrom(0, missing, seed))
            ELSE LET r1 == check_ranges(d, 1)
                 IN IF r1 # NoReturn THEN r1
                    ELSE LET r2 == check_sex(d)
                         IN IF r2 # NoReturn THEN r2
                            ELSE LET r3 == check_booleans(d, 1)
                                 IN IF r3 # NoReturn THEN r3
                                    ELSE Return(TRUE, <<>>)

\* no handler: the exception leaves validate_input_data
catch_validation_missing(r) == r

\* except Exception as e: return False, f"Validation error: {str(e)}"
catch_validation(r) ==
    IF r.raised THEN Return(FALSE, <<"Validation error:">> \o r.msg) ELSE r

validate_input_data(patient_data, seed) ==
    catch_validation(validate_body(patient_data, seed))

(* ------------------------- submitted records -------------------------- *)

\* The record the form produces from its default values: every field valid.
BaseRecord ==
    [f \in required_fields |->
        CASE f = "Age" -> IntV(50)
          [] f = "Sex" -> StrV("M")
          [] f = "Albumin" -> FloatV(40)
          [] f = "Bilirubin" -> FloatV(10)
          [] f = "ALT" -> IntV(30)
          [] f = "AST" -> IntV(30)
          [] f = "ALP" -> IntV(100)
          [] f = "INR" -> FloatV(10)
          [] f = "Platelets" -> IntV(150)
          [] f = "Sodium" -> IntV(135)
          [] f = "Creatinine" -> FloatV(10)
          [] OTHER -> IntV(0)]

\* A record with every field invalid.
BadRecord ==
    [f \in required_fields |-> IF f = "Sex" THEN IntV(3) ELSE StrV("?")]

\* one unit below / above a bound, in the bound's own type
Below(v) == [v EXCEPT !.n = v.n - 10]

Above(v) == [v EXCEPT !.n = v.n + 10]

RangeOf(f) ==
    get_feature_ranges[CHOOSE i \in 1..Len(get_feature_ranges) :
                          get_feature_ranges[i].field = f]

\* The values a caller may put into field f.
Candidates(f) ==
    IF f = "Sex" THEN {StrV("M"), StrV("F"), StrV("m"), NdArray}
    ELSE IF f \in Range(boolean_fields)
    THEN {IntV(0), IntV(1), IntV(2), IntV(-1), StrV("1"), FloatV(10), NdArray}
    ELSE {RangeOf(f).min_val, RangeOf(f).max_val, Below(RangeOf(f).min_val),
          Above(RangeOf(f).max_val), StrV("abc")}

Restrict(d, S) == [f \in S |-> d[f]]

FieldIndex(f) == CHOOSE i \in 1..Len(FieldOrder) : FieldOrder[i] = f

\* the caller fills the record in from the first field to the last and has
\* changed fewer than MaxEdits fields before it comes to f
MayEdit(f) ==
    /\ vpc = "build"
    /\ vin.kind = "dict"
    /\ vcur.count < MaxEdits
    /\ vcur.last < FieldIndex(f)

(* ------------------------- prediction adapter ------------------------- *)

Callers == 1..NumCallers

\* raise exc(msg)
Exc(type, msg) ==
    [kind |-> "raise", type |-> type, msg |-> msg, stage |-> "", probs |-> <<>>]

\* return predicted_stage, prob_dict
Result(stage, probs) ==
    [kind |-> "return", type |-> "", msg |-> <<>>, stage |-> stage, probs |-> probs]

NoOutcome ==
    [kind |-> "none", type |-> "", msg |-> <<>>, stage |-> "", probs |-> <<>>]

\* float(prob) of a numpy float64
PyFloat(prob) == [prob EXCEPT !.t = "float"]

Float64(tenths) == [t |-> "float64", n |-> tenths, s |-> ""]

\* the probabilities paired with the labels from the other end
zip_dict_reindexed(stage_names, probabilities, i, acc) ==
    [k \in Range(stage_names) |->
        PyFloat(probabilities[Len(probabilities) + 1
                              - (CHOOSE j \in 1..Len(stage_names) : stage_names[j] = k)])]

RECURSIVE zip_dict(_, _, _, _)
\* {stage: float(prob) for stage, prob in zip(stage_names, probabilities)}:
\* the pairs from the i-th on, a later pair replacing an earlier equal key
zip_dict(stage_names, probabilities, i, acc) ==
    IF i > Len(stage_names) \/ i > Len(probabilities) THEN acc
    ELSE zip_dict(stage_names, probabilities, i + 1,
                  [k \in DOMAIN acc \cup {stage_names[i]} |->
                      IF k = stage_names[i] THEN PyFloat(probabilities[i])
                      ELSE acc[k]])

\* the model fetched before the verdict is looked at
proceeds_to_load_always(is_valid) == TRUE

\* if not is_valid: raise ValueError(error_message)   -- else go on to load
proceeds_to_load(is_valid) == is_valid

\* load_model left undecorated: every call runs its body
cache_hit_never(c) == FALSE

\* st.cache_resource: the entry for load_model() is present
cache_hit(c) == c.set

\* model_path.exists()
file_exists(fs) == fs # "absent"

\* model = joblib.load(model_path); return model / except: return None
joblib_load(fs, instance) == IF fs = "ok" THEN instance ELSE 0

\* the None check left out
model_is_none_never(m) == FALSE

\* if model is None
model_is_none(m) == m = 0

\* the try block of predict_liver_disease, on the local `model` m
predict_try(m, c) ==
    IF m = 0
    THEN Raise("AttributeError", "'NoneType' object has no attribute 'predict'")
    ELSE IF c.fault = "predict" THEN Raise("ValueError", "predict failed")
    ELSE IF c.fault = "predict_proba" THEN Raise("ValueError", "predict_proba failed")
    ELSE [raised |-> FALSE, exc |-> "", ok |-> TRUE, msg |-> <<>>,
          value |-> Result(c.label, zip_dict(c.classes, c.proba, 1, <<>>))]

\* which of the classifier's methods the try block got to call
calls_predict(m, c) == m # 0

calls_proba(m, c) == m # 0 /\ c.fault # "predict"

\* no handler: the classifier's own exception leaves predict_liver_disease
catch_prediction_missing(r) ==
    IF r.raised THEN Exc(r.exc, r.msg) ELSE r.value

\* except Exception as e: raise RuntimeError(f"Prediction error: {str(e)}")
catch_prediction(r) ==
    IF r.raised THEN Exc("RuntimeError", <<"Prediction error:">> \o r.msg)
    ELSE r.value

(* ------------------------- classifiers and inputs --------------------- *)

ProbVals == {2, 3, 5, 7, 8}

\* classes_ is sorted and without repetition
ClassLists ==
    { <<"Stage1", "Stage2">>, <<"Stage1", "Stage2", "Stage3">>,
      <<"Stage2", "Stage3">>, <<"Stage1", "Stage3">> }

RECURSIVE SumSeq(_, _)
SumSeq(q, i) == IF i > Len(q) THEN 0 ELSE q[i] + SumSeq(q, i + 1)

\* probability vectors (tenths) over n classes, summing to 1.0
ProbVectors(n) == {q \in [1..n -> ProbVals] : SumSeq(q, 1) = 10}

Classifier(classes, label, q, fault) ==
    [classes |-> classes, label |-> label,
     proba |-> [i \in 1..Len(q) |-> Float64(q[i])], fault |-> fault]

\* the classifier of the worked example of the specification
StubClassifier == Classifier(<<"Stage1", "Stage2", "Stage3">>, "Stage3", <<2, 3, 5>>, "none")

AllClassifiers ==
    UNION { { Classifier(cl, cl[i], q, "none") :
                i \in 1..Len(cl), q \in ProbVectors(Len(cl)) } : cl \in ClassLists }

FewClassifiers ==
    { StubClassifier,
      [StubClassifier EXCEPT !.fault = "predict"],
      [StubClassifier EXCEPT !.fault = "predict_proba"] }

\* the records the concurrent callers submit
PipelineInputs ==
    { Dict(BaseRecord),
      Dict([BaseRecord EXCEPT !["Age"] = IntV(17)]),
      Dict(Restrict(BaseRecord, required_fields \ {"Age", "Edema"})),
      NoneInput }

(* ------------------------ validator state machine --------------------- *)

NoResult == [raised |-> FALSE, exc |-> "none", ok |-> FALSE, msg |-> <<>>]

\* the process before any call of predict_liver_disease
PipelineIdle ==
    /\ cache = [set |-> FALSE, val |-> 0]
    /\ lock = 0
    /\ built = {}
    /\ deserCount = 0
    /\ loadCalls = 0
    /\ predictCalls = 0
    /\ probaCalls = 0
    /\ errorsShown = 0
    /\ calls = 0
    /\ validCalls = 0
    /\ pc = [t \in Callers |-> "idle"]
    /\ rec = [t \in Callers |-> NoneInput]
    /\ model = [t \in Callers |-> 0]
    /\ out = [t \in Callers |-> NoOutcome]

InitValidate ==
    /\ vin = Dict(BaseRecord)
    /\ vout = NoResult
    /\ vpc = "build"
    /\ vcur = [count |-> 0, last |-> 0]
    /\ fileState = "ok"
    /\ clf = StubClassifier
    /\ PipelineIdle

\* the caller sets patient_data[f] = v
SetField(f, v) ==
    /\ MayEdit(f)
    /\ v # BaseRecord[f]
    /\ vin' = Dict([vin.d EXCEPT ![f] = v])
    /\ vcur' = [count |-> vcur.count + 1, last |-> FieldIndex(f)]
    /\ UNCHANGED <<vout, vpc, pvars>>

\* the caller leaves field f out
DropField(f) ==
    /\ MayEdit(f)
    /\ vin' = Dict(Restrict(vin.d, DOMAIN vin.d \ {f}))
    /\ vcur' = [count |-> vcur.count + 1, last |-> FieldIndex(f)]
    /\ UNCHANGED <<vout, vpc, pvars>>

\* the caller passes something that is no mapping
PassNone ==
    /\ vpc = "build"
    /\ vin.kind = "dict"
    /\ vcur.count = 0
    /\ vin' = NoneInput
    /\ UNCHANGED <<vout, vpc, vcur, pvars>>

\* validate_input_data(patient_data)
Validate ==
    /\ vpc = "build"
    /\ \E seed \in 1..NumSeeds : vout' = validate_input_data(vin, seed)
    /\ vpc' = "done"
    /\ UNCHANGED <<vin, vcur, pvars>>

NextValidate ==
    \/ \E f \in required_fields : \E v \in Candidates(f) : SetField(f, v)
    \/ \E f \in required_fields : DropField(f)
    \/ PassNone
    \/ Validate

SpecValidate == InitValidate /\ [][NextValidate]_vars

\* Every subset of the fields left out, of a valid and of an invalid record.
InitMissing ==
    /\ vin \in {Dict(Restrict(r, required_fields \ m)) :
                   r \in {BaseRecord, BadRecord}, m \in SUBSET required_fields}
    /\ vout = NoResult
    /\ vpc = "build"
    /\ vcur = [count |-> 0, last |-> 0]
    /\ fileState = "ok"
    /\ clf = StubClassifier
    /\ PipelineIdle

NextMissing == Validate

SpecMissing == InitMissing /\ [][NextMissing]_vars

(* ------------------------ adapter state machine ----------------------- *)

ValidatorIdle ==
    /\ vin = Dict(BaseRecord)
    /\ vout = NoResult
    /\ vpc = "build"
    /\ vcur = [count |-> 0, last |-> 0]

\* validate_input_data on the callers' inputs, tabulated
Verdict ==
    [r \in PipelineInputs, seed \in 1..NumSeeds |-> validate_input_data(r, seed)]

\* predict_liver_disease(r) is called: validation, then the raise or on to load
Call(t, r) ==
    /\ pc[t] = "idle"
    /\ calls < MaxCalls
    /\ calls' = calls + 1
    /\ rec' = [rec EXCEPT ![t] = r]
    /\ model' = [model EXCEPT ![t] = 0]
    /\ \E seed \in 1..NumSeeds :
          LET v == Verdict[r, seed]
          IN /\ validCalls' = IF v.ok THEN validCalls + 1 ELSE validCalls
             /\ IF proceeds_to_load(v.ok)
                THEN /\ pc' = [pc EXCEPT ![t] = "load"]
                     /\ out' = [out EXCEPT ![t] = NoOutcome]
                ELSE /\ pc' = [pc EXCEPT ![t] = "raised"]
                     /\ out' = [out EXCEPT ![t] = Exc("ValueError", v.msg)]
    /\ UNCHANGED <<vvars, fileState, clf, cache, lock, built, deserCount,
                   loadCalls, predictCalls, probaCalls, errorsShown>>

\* load_model() is entered: the cache is read without the lock
CacheRead(t) ==
    /\ pc[t] = "load"
    /\ loadCalls' = loadCalls + 1
    /\ IF cache_hit(cache)
       THEN /\ model' = [model EXCEPT ![t] = cache.val]
            /\ pc' = [pc EXCEPT ![t] = "infer"]
       ELSE /\ pc' = [pc EXCEPT ![t] = "lock"]
            /\ UNCHANGED model
    /\ UNCHANGED <<vvars, fileState, clf, cache, lock, built, deserCount,
                   predictCalls, probaCalls, errorsShown, calls, validCalls,
                   rec, out>>

\* a cache miss takes the compute lock
AcquireLock(t) ==
    /\ pc[t] = "lock"
    /\ lock = 0
    /\ lock' = t
    /\ pc' = [pc EXCEPT ![t] = "locked"]
    /\ UNCHANGED <<vvars, fileState, clf, cache, built, deserCount,
                   loadCalls, predictCalls, probaCalls, errorsShown, calls,
                   validCalls, rec, model, out>>

\* under the lock the cache is read again; on a miss load_model's body runs up
\* to joblib.load, or to the FileNotFoundError that makes it return None
LoadBegin(t) ==
    /\ pc[t] = "locked"
    /\ IF cache_hit(cache)
       THEN /\ model' = [model EXCEPT ![t] = cache.val]
            /\ lock' = 0
            /\ pc' = [pc EXCEPT ![t] = "infer"]
            /\ UNCHANGED <<cache, deserCount, errorsShown>>
       ELSE IF file_exists(fileState)
       THEN /\ deserCount' = deserCount + 1
            /\ pc' = [pc EXCEPT ![t] = "deser"]
            /\ UNCHANGED <<cache, lock, model, errorsShown>>
       ELSE /\ cache' = [set |-> TRUE, val |-> 0]
            /\ model' = [model EXCEPT ![t] = 0]
            /\ errorsShown' = errorsShown + 1
            /\ lock' = 0
            /\ pc' = [pc EXCEPT ![t] = "infer"]
            /\ UNCHANGED deserCount
    /\ UNCHANGED <<vvars, fileState, clf, built, loadCalls, predictCalls,
                   probaCalls, calls, validCalls, rec, out>>

\* joblib.load ends; load_model returns, the cache stores what it returned
LoadEnd(t) ==
    /\ pc[t] = "deser"
    /\ LET m == joblib_load(fileState, deserCount)
       IN /\ built' = IF m = 0 THEN built ELSE built \cup {m}
          /\ cache' = [set |-> TRUE, val |-> m]
          /\ model' = [model EXCEPT ![t] = m]
          /\ errorsShown' = IF m = 0 THEN errorsShown + 1 ELSE errorsShown
    /\ lock' = 0
    /\ pc' = [pc EXCEPT ![t] = "infer"]
    /\ UNCHANGED <<vvars, fileState, clf, deserCount, loadCalls,
                   predictCalls, probaCalls, calls, validCalls, rec, out>>

\* the None check, then the try block and its handler
Infer(t) ==
    /\ pc[t] = "infer"
    /\ IF model_is_none(model[t])
       THEN /\ out' = [out EXCEPT ![t] = Exc("RuntimeError", <<"Failed to load model">>)]
            /\ pc' = [pc EXCEPT ![t] = "raised"]
            /\ UNCHANGED <<predictCalls, probaCalls>>
       ELSE LET o == catch_prediction(predict_try(model[t], clf))
            IN /\ out' = [out EXCEPT ![t] = o]
               /\ pc' = [pc EXCEPT ![t] = IF o.kind = "return" THEN "returned" ELSE "raised"]
               /\ predictCalls' = predictCalls + (IF calls_predict(model[t], clf) THEN 1 ELSE 0)
               /\ probaCalls' = probaCalls + (IF calls_proba(model[t], clf) THEN 1 ELSE 0)
    /\ UNCHANGED <<vvars, fileState, clf, cache, lock, built, deserCount,
                   loadCalls, errorsShown, calls, validCalls, rec, model>>

\* the caller has its result or its exception and is free for the next call
Finish(t) ==
    /\ pc[t] \in {"returned", "raised"}
    /\ pc' = [pc EXCEPT ![t] = "idle"]
    /\ UNCHANGED <<vvars, fileState, clf, cache, lock, built, deserCount,
                   loadCalls, predictCalls, probaCalls, errorsShown, calls,
                   validCalls, rec, model, out>>

Init ==
    /\ ValidatorIdle
    /\ fileState \in {"ok", "absent", "corrupt"}
    /\ clf \in FewClassifiers
    /\ PipelineIdle

Next ==
    \E t \in Callers :
        \/ \E r \in PipelineInputs : Call(t, r)
        \/ CacheRead(t)
        \/ AcquireLock(t)
        \/ LoadBegin(t)
        \/ LoadEnd(t)
        \/ Infer(t)
        \/ Finish(t)

Spec == Init /\ [][Next]_vars

\* One caller, every classifier: the shaping of the result.
InitShape ==
    /\ ValidatorIdle
    /\ fileState = "ok"
    /\ clf \in AllClassifiers
    /\ PipelineIdle

NextShape ==
    \/ \E r \in PipelineInputs : Call(1, r)
    \/ CacheRead(1)
    \/ AcquireLock(1)
    \/ LoadBegin(1)
    \/ LoadEnd(1)
    \/ Infer(1)
    \/ Finish(1)

SpecShape == InitShape /\ [][NextShape]_vars

(* ====================== properties of the validator =================== *)

Validated == vpc = "done"

\* vin is the reference record with field f set to v
OnlyFieldIs(f, v) == vin = Dict([BaseRecord EXCEPT ![f] = v])

\* the four boolean fields, as the data model lists them
FourBooleans == {"Ascites", "Hepatomegaly", "Spiders", "Edema"}

\* C3: for each boolean field of an otherwise valid record, validation
\* succeeds on the integers 0 and 1 and fails, naming the field, on 2, -1,
\* the string "1" and the float 1.0.
C3_BooleanExactlyZeroOrOne ==
    \A f \in FourBooleans :
        /\ \A v \in {IntV(0), IntV(1)} :
              (Validated /\ OnlyFieldIs(f, v)) => vout = Return(TRUE, <<>>)
        /\ \A v \in {IntV(2), IntV(-1), StrV("1"), FloatV(10)} :
              (Validated /\ OnlyFieldIs(f, v)) =>
                  (~vout.raised /\ ~vout.ok /\ f \in Range(vout.msg))

\* the ten closed ranges of the data model, in tenths, with their texts
ClaimedRanges ==
    [Age        |-> [lo |-> IntV(18),   hi |-> IntV(90),    lotext |-> "18",  hitext |-> "90"],
     Albumin    |-> [lo |-> FloatV(20), hi |-> FloatV(60),  lotext |-> "2.0", hitext |-> "6.0"],
     Bilirubin  |-> [lo |-> FloatV(3),  hi |-> FloatV(100), lotext |-> "0.3", hitext |-> "10.0"],
     ALT        |-> [lo |-> IntV(7),    hi |-> IntV(2000),  lotext |-> "7",   hitext |-> "2000"],
     AST        |-> [lo |-> IntV(10),   hi |-> IntV(2000),  lotext |-> "10",  hitext |-> "2000"],
     ALP        |-> [lo |-> IntV(44),   hi |-> IntV(500),   lotext |-> "44",  hitext |-> "500"],
     INR        |-> [lo |-> FloatV(5),  hi |-> FloatV(50),  lotext |-> "0.5", hitext |-> "5.0"],
     Platelets  |-> [lo |-> IntV(20),   hi |-> IntV(500),   lotext |-> "20",  hitext |-> "500"],
     Sodium     |-> [lo |-> IntV(125),  hi |-> IntV(145),   lotext |-> "125", hitext |-> "145"],
     Creatinine |-> [lo |-> FloatV(5),  hi |-> FloatV(40),  lotext |-> "0.5", hitext |-> "4.0"]]

\* C4: for each ranged field of an otherwise valid record, the minimum and the
\* maximum pass, and one unit below the minimum or above the maximum fails
\* with a message naming the field and both bounds.
C4_RangeBoundaries ==
    \A f \in DOMAIN ClaimedRanges :
        LET c == ClaimedRanges[f]
        IN /\ \A v \in {c.lo, c.hi} :
                 (Validated /\ OnlyFieldIs(f, v)) => vout = Return(TRUE, <<>>)
           /\ \A v \in {Below(c.lo), Above(c.hi)} :
                 (Validated /\ OnlyFieldIs(f, v)) =>
                     /\ ~vout.raised /\ ~vout.ok
                     /\ {f, c.lotext, c.hitext} \subseteq Range(vout.msg)
                     /\ vout.msg[1] = f

C4_Witness ==
    /\ Validated
    /\ OnlyFieldIs("Age", IntV(17))
    /\ vout = Return(FALSE, <<"Age", "must be between", "18", "and", "90">>)

\* the fifteen keys of a PatientRecord
FifteenFields ==
    DOMAIN ClaimedRanges \cup {"Sex"} \cup FourBooleans

\* C5: a record missing a non-empty subset of the fifteen fields is rejected
\* with a message listing each missing field once and no present field,
\* whatever the present fields hold.
C5_MissingListedExactly ==
    (Validated /\ vin.kind = "dict" /\ FifteenFields \ DOMAIN vin.d # {}) =>
        /\ ~vout.raised /\ ~vout.ok
        /\ Len(vout.msg) = 1 + Cardinality(FifteenFields \ DOMAIN vin.d)
        /\ vout.msg[1] = "Missing required fields:"
        /\ Range(Tail(vout.msg)) = FifteenFields \ DOMAIN vin.d

C5_Witness ==
    /\ Validated
    /\ vin = Dict(Restrict(BadRecord, FifteenFields \ {"Age", "Sex", "Platelets"}))
    /\ Range(Tail(vout.msg)) = {"Age", "Sex", "Platelets"}
    /\ vout.msg[2] = "Platelets"

\* inputs on which the checks themselves fault
Faulting ==
    \/ vin.kind # "dict"
    \/ OnlyFieldIs("Sex", NdArray)
    \/ \E f \in FourBooleans : OnlyFieldIs(f, NdArray)

\* C9: validate_input_data always returns an (ok, message) pair, and a fault
\* inside it yields ok = false with the generic validation-error message.
C9_ValidateIsTotal ==
    Validated =>
        /\ ~vout.raised
        /\ vout.exc = ""
        /\ vout.ok \in BOOLEAN
        /\ vout.ok => vout.msg = <<>>
        /\ Faulting => (~vout.ok /\ vout.msg[1] = "Validation error:")

C9_Witness ==
    /\ Validated
    /\ vin.kind # "dict"
    /\ ~vout.ok
    /\ vout.msg[1] = "Validation error:"

\* The rules in the order claimed; each gives the message of its violation,
\* or <<>> when the record keeps it.
IsExactly01(v) == v.t = "int" /\ v.n \in {0, 10}

RuleOrder ==
    <<"Age", "Albumin", "Bilirubin", "ALT", "AST", "ALP", "INR", "Platelets",
      "Sodium", "Creatinine", "Sex", "Ascites", "Hepatomegaly", "Spiders", "Edema">>

RuleMessage(d, f) ==
    IF f \in DOMAIN ClaimedRanges
    THEN IF d[f].t \notin {"int", "float"} THEN <<f, "must be a number">>
         ELSE IF d[f].n < ClaimedRanges[f].lo.n \/ d[f].n > ClaimedRanges[f].hi.n
         THEN <<f, "must be between", ClaimedRanges[f].lotext, "and",
                ClaimedRanges[f].hitext>>
         ELSE <<>>
    ELSE IF f = "Sex"
    THEN IF d[f] \in {StrV("M"), StrV("F")} THEN <<>>
         ELSE <<"Sex must be either 'M' or 'F'">>
    ELSE IF IsExactly01(d[f]) THEN <<>> ELSE <<f, "must be 0 or 1">>

RECURSIVE FirstViolation(_, _)
FirstViolation(d, i) ==
    IF i > Len(RuleOrder) THEN <<>>
    ELSE IF RuleMessage(d, RuleOrder[i]) # <<>> THEN RuleMessage(d, RuleOrder[i])
    ELSE FirstViolation(d, i + 1)

\* C10: the checks run in a fixed order and only the first failure is
\* reported: missing fields, the ten numeric fields in catalog order (type
\* before range), Sex, the four boolean fields in order; (true, "") is
\* returned only when no rule is violated.  (Stated for records none of whose
\* fields holds an array.)
C10_FirstFailureInOrder ==
    (/\ Validated
     /\ vin.kind = "dict"
     /\ \A f \in DOMAIN vin.d : vin.d[f].t # "ndarray") =>
        IF FifteenFields \ DOMAIN vin.d # {}
        THEN ~vout.ok /\ vout.msg[1] = "Missing required fields:"
        ELSE IF FirstViolation(vin.d, 1) # <<>>
        THEN vout = Return(FALSE, FirstViolation(vin.d, 1))
        ELSE vout = Return(TRUE, <<>>)

(* ================= properties of the prediction adapter =============== *)

\* the record fails validate_input_data (the verdict does not depend on the seed)
Invalid(r) == ~Verdict[r, 1].ok

InCall(t) == pc[t] # "idle"

\* C1: while every record submitted so far has failed validation, load_model,
\* model.predict and model.predict_proba have not been invoked, and each such
\* call ends raising the validation error with the validator's message.
C1_InvalidNeverLoads ==
    /\ validCalls = 0 =>
          loadCalls = 0 /\ deserCount = 0 /\ predictCalls = 0 /\ probaCalls = 0
    /\ \A t \in Callers :
          (InCall(t) /\ Invalid(rec[t])) =>
              /\ pc[t] = "raised"
              /\ out[t].kind = "raise" /\ out[t].type = "ValueError"
              /\ \E seed \in 1..NumSeeds :
                    out[t].msg = Verdict[rec[t], seed].msg

C1_Witness ==
    /\ calls >= 2
    /\ validCalls = 0
    /\ loadCalls = 0
    /\ \E t \in Callers :
          /\ pc[t] = "raised"
          /\ out[t] = Exc("ValueError", <<"Age", "must be between", "18", "and", "90">>)

Kind(o) ==
    IF o.type = "ValueError" THEN "validation"
    ELSE IF o.type = "RuntimeError" /\ o.msg = <<"Failed to load model">>
    THEN "model-unavailable"
    ELSE IF o.type = "RuntimeError" /\ Len(o.msg) >= 2 /\ o.msg[1] = "Prediction error:"
    THEN "prediction"
    ELSE "other"

\* the stage at which a call of caller t fails, "" when none does
FailingStage(t) ==
    IF Invalid(rec[t]) THEN "validation"
    ELSE IF fileState # "ok" THEN "model-unavailable"
    ELSE IF clf.fault # "none" THEN "prediction"
    ELSE ""

\* C6: a failing call raises exactly the failure kind of the stage that
\* failed: validation, model-unavailable or prediction (which carries the
\* cause), and the three can be told apart by the caller.
C6_ThreeFailureKinds ==
    \A t \in Callers :
        /\ pc[t] = "raised" =>
              /\ out[t].kind = "raise"
              /\ Kind(out[t]) = FailingStage(t)
              /\ Kind(out[t]) = "prediction" =>
                    out[t].msg[2] = clf.fault \o " failed"
        /\ pc[t] = "returned" => FailingStage(t) = ""

C6_Witness ==
    \E t, u \in Callers :
        /\ pc[t] = "raised" /\ Kind(out[t]) = "prediction"
        /\ pc[u] = "raised" /\ Kind(out[u]) = "validation"

\* C7: with the model file absent or not deserializable, load_model reports
\* the failure and hands out no model, the classifier is never invoked, and a
\* call with a valid record fails with the model-unavailable error.
C7_LoadFailureSurfaced ==
    fileState # "ok" =>
        /\ built = {}
        /\ cache.val = 0
        /\ cache.set => errorsShown >= 1
        /\ fileState = "absent" => deserCount = 0
        /\ predictCalls = 0 /\ probaCalls = 0
        /\ \A t \in Callers :
              /\ model[t] = 0
              /\ (pc[t] \in {"raised", "returned"} /\ ~Invalid(rec[t])) =>
                    out[t] = Exc("RuntimeError", <<"Failed to load model">>)

C7_Witness ==
    /\ fileState = "corrupt"
    /\ deserCount = 1
    /\ errorsShown = 1
    /\ \E t \in Callers :
          /\ pc[t] = "raised"
          /\ ~Invalid(rec[t])
          /\ out[t] = Exc("RuntimeError", <<"Failed to load model">>)

\* C8: for a valid record and a loaded classifier with labels L[1..n] and
\* probabilities P[1..n], the call returns the label predict gave and the
\* mapping sending each L[i] to P[i].
C8_PositionalPairing ==
    \A t \in Callers :
        pc[t] = "returned" =>
            /\ out[t].kind = "return"
            /\ out[t].stage = clf.label
            /\ DOMAIN out[t].probs = Range(clf.classes)
            /\ \A i \in 1..Len(clf.classes) :
                  /\ out[t].probs[clf.classes[i]].n = clf.proba[i].n
                  /\ out[t].probs[clf.classes[i]].t = "float"
            /\ clf = StubClassifier =>
                  out[t].probs = [Stage1 |-> FloatV(2), Stage2 |-> FloatV(3),
                                  Stage3 |-> FloatV(5)]

C8_Witness ==
    /\ pc[1] = "returned"
    /\ clf = StubClassifier
    /\ out[1].stage = "Stage3"
    /\ out[1].probs["Stage1"].n = 2
    /\ out[1].probs["Stage3"].n = 5

====
